---- MODULE Spec2Model ----
(***************************************************************************)
(* Mail delivery of smart_farm: the three interchangeable mail services    *)
(* (mail_service.py, mail_service_simple.py, mail_service_ultralight.py),  *)
(* the batch command that drains the file queue (process_email_queue.py)   *)
(* and the registration step that triggers the welcome mail (views.py).    *)
(*                                                                         *)
(* Python values are modelled as follows.                                  *)
(*   - A request is identified by the clock value read when its notify     *)
(*     call builds the mail (timezone.now() of the queue entry): field     *)
(*     timestamp.  Of the fields of a mail the model carries those the     *)
(*     services read or change: context (what json has to encode) and      *)
(*     attempts; subject, template_name, recipient_email, from_email and   *)
(*     mail_type are strings copied along unchanged and never read by the  *)
(*     queue code.                                                         *)
(*   - A function that can raise returns a record with a field exc: TRUE   *)
(*     means an exception leaves the function.                             *)
(*   - A return value is one of "True", "False", "None".                   *)
(***************************************************************************)
EXTENDS Integers, Sequences, FiniteSets, TLC

VARIABLES
    strategy,          \* which mail service the deployment uses: "A", "B", "C"
    enabled,           \* SimpleMailService.enabled / UltraLightMailService.enabled
    clock,             \* timezone.now(): next request timestamp
    email_queue_file,  \* Strategy C: the file email_queue.json
    is_running,        \* Strategy A: AsyncMailService.is_running
    background_task,   \* Strategy A: state of the consumer task
    mail_task,         \* Strategy A: the entry the consumer task holds (0: none)
    mail_queue,        \* Strategy A: asyncio.Queue contents
    inflight,          \* Strategy A: sends running in executor threads
    drain,             \* Strategy C: the frame of a running Command.handle
    writer,            \* Strategy C: the frame of a _queue_email call of a
                       \* second process, between its read and its write
    users,             \* committed rows of the User table
    delivered,         \* requests the transport accepted that can be sent again
    outcomes,          \* records written by _log_mail_activity
    started,           \* Strategy A: queue entries whose consumer attempt began
    finished,          \* Strategy A: queue entries whose consumer attempt ended
    interrupted,       \* Strategy A: entries whose attempt a stop() cut short
    stranded,          \* Strategy A: entries that were on the queue at a
                       \* stop(), where the stop is recorded (SpecStop)
    alive,             \* Strategy A: consumer tasks that have not ended
    send_calls,        \* Strategies A, B: calls of email.send per request
    last               \* what the most recent operation did

vars == <<strategy, enabled, clock, email_queue_file, is_running,
          background_task, mail_task, mail_queue, inflight, drain, writer,
          users,
          delivered, outcomes, started, finished, interrupted, stranded,
          alive, send_calls, last>>

\* The state of Strategy A
asyncVars == <<is_running, background_task, mail_task, mail_queue, inflight,
               started, finished, interrupted, stranded, alive>>

----------------------------------------------------------------------------
(* Bounds *)

MaxReq == 3        \* notify calls per behaviour
MaxLimit == 3      \* largest --limit given to the batch command
MaxAttempts == 4   \* the transport fails at most this often for one request

(* Program constants *)

PurgeCeiling == 3  \* "attempts < 3" of --clear-failed

----------------------------------------------------------------------------
(* Values *)

Strategies == {"A", "B", "C"}
MailTypes == {"welcome", "farm_setup_reminder", "weather_alert"}

\* alert_data handed to send_weather_alert: a mapping of JSON-native values,
\* or one holding a value json cannot encode (a datetime, a model instance).
AlertData == {"dict", "dict_nonjson"}

\* What rendering the template and EmailMultiAlternatives.send() do:
\* send() returns 1, returns 0, raises; or render_to_string raises.
SendResults == {"sent", "zero", "send_raises", "template_raises"}

\* The same for one entry of the batch command, whose _send_email treats both
\* exceptions alike
BatchResults == {"sent", "zero", "raises"}

Min(a, b) == IF a < b THEN a ELSE b
Max(a, b) == IF a > b THEN a ELSE b

\* Python slices s[:n] and s[n:] (n may exceed len(s); a negative n counts
\* from the end)
PySliceTo(s, n) ==
    LET k == IF n >= 0 THEN Min(n, Len(s)) ELSE Max(Len(s) + n, 0)
    IN  SubSeq(s, 1, k)

PySliceFrom(s, n) ==
    LET k == IF n >= 0 THEN Min(n, Len(s)) ELSE Max(Len(s) + n, 0)
    IN  SubSeq(s, k + 1, Len(s))

----------------------------------------------------------------------------
(* json: what json.dump writes for a Python value and json.load gives back *)

ToJson(ctx) == IF ctx = "dict" THEN "object" ELSE "unencodable"

FromJson(j) == IF j = "object" THEN "dict" ELSE "undecodable"

Serialisable(e) == ToJson(e.context) # "unencodable"

\* json.dump(queue, f): exc when some element cannot be encoded (TypeError);
\* text is what reached the file
json_dump(queue) ==
    IF \A i \in DOMAIN queue : Serialisable(queue[i])
    THEN [exc |-> FALSE,
          text |-> [i \in DOMAIN queue |->
                       [queue[i] EXCEPT !.context = ToJson(@)]]]
    ELSE [exc |-> TRUE, text |-> <<>>]

\* json.load(f) of a file that holds a JSON array
json_load(text) ==
    [i \in DOMAIN text |-> [text[i] EXCEPT !.context = FromJson(@)]]

MissingFile == [st |-> "missing", text |-> <<>>]
CorruptFile == [st |-> "corrupt", text |-> <<>>]
OkFile(text) == [st |-> "ok", text |-> text]

----------------------------------------------------------------------------
(* The record of the most recent operation *)

NoOp ==
    [op |-> "init", id |-> 0, kind |-> "-", ret |-> "-", exc |-> FALSE,
     fault |-> FALSE, running |-> FALSE, queued |-> FALSE,
     syncCalls |-> 0, directCalls |-> 0, sends |-> 0, sentOk |-> FALSE,
     outcome |-> "none", mail |-> "-", spawned |-> 0, size |-> -1]

----------------------------------------------------------------------------
(* Strategy C: UltraLightMailService *)

\* Environment faults of one _queue_email call
QueueFaults == {"none", "create", "read", "open_w", "dump"}

\* mail_data built by send_welcome_email / send_farm_setup_reminder /
\* send_weather_alert
MailData(kind, alert, now) ==
    [timestamp |-> now,
     context |-> IF kind = "weather_alert" THEN alert ELSE "dict"]

\* mail_entry built in _queue_email
MailEntry(mail_data) ==
    [timestamp |-> mail_data.timestamp, context |-> mail_data.context,
     attempts |-> 0]

\* A _queue_email that starts from an empty list instead of reading the file
ReadQueueForgotten(file) == <<>>

\* _queue_email, lines 35-40: the queue as read from the file; a file that
\* does not parse gives the empty queue
ReadQueue(file) == IF file.st = "ok" THEN json_load(file.text) ELSE <<>>

\* The body of the try block of _queue_email
QueueEmailBody(file, mail_data, io) ==
    LET created == IF file.st = "missing" THEN OkFile(<<>>) ELSE file
        queue == ReadQueue(created)
        newq == Append(queue, MailEntry(mail_data))
        dumped == json_dump(newq)
    IN  IF file.st = "missing" /\ io = "create"
        THEN [file |-> file, ret |-> "False", exc |-> TRUE]
        ELSE IF io = "read"
        THEN [file |-> created, ret |-> "False", exc |-> TRUE]
        ELSE IF io = "open_w"
        THEN [file |-> created, ret |-> "False", exc |-> TRUE]
        ELSE IF io = "dump" \/ dumped.exc
        THEN [file |-> CorruptFile, ret |-> "False", exc |-> TRUE]
        ELSE [file |-> OkFile(dumped.text), ret |-> "True", exc |-> FALSE]

\* _queue_email without its "except Exception" clause
QueueEmailUncaught(file, mail_data, io) == QueueEmailBody(file, mail_data, io)

_queue_email(file, mail_data, io) ==
    LET b == QueueEmailBody(file, mail_data, io)
    IN  IF b.exc THEN [file |-> b.file, ret |-> "False", exc |-> FALSE]
        ELSE b

\* A notify that queues although the service is disabled
UltraLightSendIgnoresEnabled(file, en, kind, alert, now, io) ==
    _queue_email(file, MailData(kind, alert, now), io) @@ [sends |-> 0]

\* send_welcome_email, send_farm_setup_reminder, send_weather_alert.  sends
\* counts the calls of the transport: the file queue makes none
UltraLightSend(file, en, kind, alert, now, io) ==
    IF ~en THEN [file |-> file, ret |-> "False", exc |-> FALSE, sends |-> 0]
    ELSE _queue_email(file, MailData(kind, alert, now), io) @@ [sends |-> 0]

\* A get_queue_size without its except clause: an unreadable file shows as
\* an exception
GetQueueSizeUncaught(file, io) ==
    IF file.st = "missing" THEN [ret |-> 0, exc |-> FALSE]
    ELSE IF io = "read" \/ file.st = "corrupt"
    THEN [ret |-> -1, exc |-> TRUE]
    ELSE [ret |-> Len(json_load(file.text)), exc |-> FALSE]

\* get_queue_size, lines 145-155: 0 for a missing file, len of the loaded
\* list otherwise; the bare except turns every failure into 0
get_queue_size(file, io) ==
    IF file.st = "missing" THEN [ret |-> 0, exc |-> FALSE]
    ELSE IF io = "read" \/ file.st = "corrupt"
    THEN [ret |-> 0, exc |-> FALSE]
    ELSE [ret |-> Len(json_load(file.text)), exc |-> FALSE]

GetQueueSize ==
    /\ strategy = "C"
    /\ \E io \in {"none", "read"} :
         LET r == get_queue_size(email_queue_file, io)
         IN  last' = [NoOp EXCEPT !.op = "size", !.size = r.ret,
                                 !.exc = r.exc]
    /\ UNCHANGED <<strategy, enabled, writer, clock, email_queue_file, drain,
                   users, delivered, outcomes>>
    /\ UNCHANGED asyncVars
    /\ UNCHANGED send_calls

\* No _queue_email call of the second process is in progress
NoWriter == [pc |-> "idle", queue |-> <<>>, id |-> 0]

\* The requests waiting in the file
QueuedIds(file) == {file.text[k].timestamp : k \in DOMAIN file.text}

\* One notify call, from the read of the file to the return; alerts and
\* faults are the alert_data values and the file faults the caller and the
\* environment can produce
NotifyCWith(alerts, faults) ==
    /\ strategy = "C"
    /\ clock <= MaxReq
    /\ \E kind \in MailTypes, alert \in alerts, io \in faults :
         LET r == UltraLightSend(email_queue_file, enabled, kind, alert,
                                 clock, io)
         IN  /\ email_queue_file' = r.file
             /\ last' = [NoOp EXCEPT !.op = "notify", !.id = clock,
                                     !.kind = kind, !.ret = r.ret,
                                     !.exc = r.exc, !.sends = r.sends,
                                     !.fault = (enabled /\ r.ret # "True")]
    /\ clock' = clock + 1
    /\ UNCHANGED <<strategy, enabled, writer, drain, users, delivered, outcomes>>
    /\ UNCHANGED asyncVars
    /\ UNCHANGED send_calls

\* A notify call while no batch command is running
NotifyC ==
    /\ drain.pc = "idle"
    /\ NotifyCWith(AlertData, QueueFaults)

----------------------------------------------------------------------------
(* Registration: views.create_user_account, which notifies through the     *)
(* file queue.                                                             *)

\* Lines 143-148, the body of the inner try: the import, the notify and the
\* log of its result.  mail is what the notify did.  The function assigns
\* logger in its except clause (line 152), which makes the name local to the
\* function and unbound at lines 146 and 148: when the notify returns, the
\* log call raises UnboundLocalError, so every path leaves the body by an
\* exception
QueueWelcomeBody(file, en, now, io, imp) ==
    IF imp = "raises"
    THEN [file |-> file, mail |-> "raises", exc |-> TRUE]
    ELSE LET r == UltraLightSend(file, en, "welcome", "dict", now, io)
         IN  [file |-> r.file, mail |-> IF r.exc THEN "raises" ELSE r.ret,
              exc |-> TRUE]

\* The inner try without its "except Exception" clause
QueueWelcomeUncaught(file, en, now, io, imp) ==
    QueueWelcomeBody(file, en, now, io, imp)

\* Lines 142-153: the inner try with its except clause, which logs
QueueWelcome(file, en, now, io, imp) ==
    [QueueWelcomeBody(file, en, now, io, imp) EXCEPT !.exc = FALSE]

\* create_user_account: an exception inside transaction.atomic() rolls the
\* user back and is turned into (None, str(e)); the file keeps what the
\* notify wrote
create_user_account(file, en, now, io, imp, db) ==
    IF db = "raises"
    THEN [file |-> file, ret |-> "None,error", created |-> FALSE,
          mail |-> "-"]
    ELSE LET w == QueueWelcome(file, en, now, io, imp)
         IN  IF w.exc
             THEN [file |-> w.file, ret |-> "None,error", created |-> FALSE,
                   mail |-> w.mail]
             ELSE [file |-> w.file, ret |-> "user,None", created |-> TRUE,
                   mail |-> w.mail]

CreateUserAccount ==
    /\ strategy = "C"
    /\ drain.pc = "idle"
    /\ clock <= MaxReq
    /\ \E io \in QueueFaults, imp \in {"ok", "raises"},
          db \in {"ok", "raises"} :
         LET r == create_user_account(email_queue_file, enabled, clock, io,
                                      imp, db)
         IN  /\ email_queue_file' = r.file
             /\ users' = IF r.created THEN users \cup {clock} ELSE users
             /\ last' = [NoOp EXCEPT !.op = "create_user", !.id = clock,
                                     !.kind = "welcome", !.ret = r.ret,
                                     !.mail = r.mail]
    /\ clock' = clock + 1
    /\ UNCHANGED <<strategy, enabled, writer, drain, delivered, outcomes>>
    /\ UNCHANGED asyncVars
    /\ UNCHANGED send_calls

\* _queue_email of a second process, lines 31-40: the file is created if
\* missing and the queue is read; the process is then preempted
QueueRead ==
    /\ strategy = "C"
    /\ enabled
    /\ writer.pc = "idle"
    /\ clock <= MaxReq
    /\ LET created == IF email_queue_file.st = "missing" THEN OkFile(<<>>)
                      ELSE email_queue_file
       IN  /\ email_queue_file' = created
           /\ writer' = [pc |-> "read", queue |-> ReadQueue(created),
                         id |-> clock]
    /\ clock' = clock + 1
    /\ UNCHANGED <<strategy, enabled, drain, users, delivered, outcomes,
                   send_calls, last>>
    /\ UNCHANGED asyncVars

\* _queue_email of the second process, lines 43-61: the entry is appended to
\* the queue read earlier, the file is rewritten and True is returned
QueueWrite ==
    /\ strategy = "C"
    /\ writer.pc = "read"
    /\ LET mail_entry == MailEntry(MailData("welcome", "dict", writer.id))
           dumped == json_dump(Append(writer.queue, mail_entry))
       IN  email_queue_file' = OkFile(dumped.text)
    /\ last' = [NoOp EXCEPT !.op = "notify", !.id = writer.id,
                            !.kind = "welcome", !.ret = "True"]
    /\ writer' = NoWriter
    /\ UNCHANGED <<strategy, enabled, clock, drain, users, delivered,
                   outcomes, send_calls>>
    /\ UNCHANGED asyncVars

----------------------------------------------------------------------------
(* Strategy C: the batch command process_email_queue (drain).              *)
(* Command.handle runs in a process of its own; drain is its frame: pc,    *)
(* the options, the locals queue, remaining_queue, processed, failed, and  *)
(* which entries it attempted (attempted, sentIds, failedIds).             *)

Idle ==
    [pc |-> "idle", limit |-> 0, clear_failed |-> FALSE, queue |-> <<>>,
     i |-> 0, remaining_queue |-> <<>>, processed |-> 0, failed |-> 0,
     attempted |-> <<>>, sentIds |-> {}, failedIds |-> {}, purged |-> {},
     wrote |-> FALSE, error |-> FALSE, raised |-> FALSE]

\* handle, lines 106-108: the except clause of the command writes the error
\* to stdout and to the log and does not raise again, so the command
\* returns normally.  error: the try block raised
HandleExcept(error) == [error |-> error, raised |-> FALSE]

\* Command._send_email: True exactly when send() returned a positive count;
\* every exception is caught and gives False
_send_email(result) == result = "sent"

Fresh(email) == email.attempts < PurgeCeiling

\* --clear-failed that drops nothing
ClearFailedNothing(queue) == queue

\* --clear-failed: [email for email in queue if email.get('attempts', 0) < 3]
ClearFailed(queue) == SelectSeq(queue, Fresh)

\* The failure branch that forgets to count the attempt
BumpForgotten(email_data) == email_data

\* A failure branch that counts the attempt twice
BumpTwice(email_data) == [email_data EXCEPT !.attempts = @ + 2]

\* email_data['attempts'] = email_data.get('attempts', 0) + 1
Bump(email_data) == [email_data EXCEPT !.attempts = @ + 1]

\* A batch that is processed from its newest entry to its oldest
BatchNewestFirst(queue, limit) ==
    LET b == PySliceTo(queue, limit)
    IN  [k \in DOMAIN b |-> b[Len(b) + 1 - k]]

\* queue[:limit], the entries the batch processes
Batch(queue, limit) == PySliceTo(queue, limit)

\* A slice that loses the first untouched entry
UnprocessedOffByOne(queue, limit) == PySliceFrom(queue, limit + 1)

\* A tail whose entries start over with attempts = 0
UnprocessedReset(queue, limit) ==
    LET rest == PySliceFrom(queue, limit)
    IN  [k \in DOMAIN rest |-> [rest[k] EXCEPT !.attempts = 0]]

\* queue[limit:], the entries the batch does not touch
Unprocessed(queue, limit) == PySliceFrom(queue, limit)

\* handle, lines 36-70: read the options and the file, purge if asked;
\* limits are the values of --limit, ios the faults of reading the file
DrainStartWith(limits, ios) ==
    /\ strategy = "C"
    /\ drain.pc = "idle"
    /\ \E limit \in limits, clear_failed \in BOOLEAN, io \in ios :
         LET opts == [Idle EXCEPT !.limit = limit,
                                  !.clear_failed = clear_failed]
         IN  IF email_queue_file.st = "missing"
             THEN drain' = [opts EXCEPT !.pc = "done"]
             ELSE IF io = "read" \/ email_queue_file.st = "corrupt"
             THEN drain' = HandleExcept(TRUE) @@ [opts EXCEPT !.pc = "done"]
             ELSE
             LET loaded == json_load(email_queue_file.text)
                 queue == IF clear_failed THEN ClearFailed(loaded)
                          ELSE loaded
             IN  IF loaded = <<>>
                 THEN drain' = [opts EXCEPT !.pc = "done"]
                 ELSE drain' = [opts EXCEPT
                         !.pc = "loop", !.queue = queue,
                         !.purged = {loaded[k].timestamp : k \in DOMAIN loaded}
                                    \ {queue[k].timestamp : k \in DOMAIN queue}]
    /\ last' = [NoOp EXCEPT !.op = "drain"]
    /\ UNCHANGED <<strategy, enabled, writer, clock, email_queue_file, users,
                   delivered, outcomes>>
    /\ UNCHANGED asyncVars
    /\ UNCHANGED send_calls

DrainStart == DrainStartWith(0..MaxLimit, {"none", "read"})

\* The attempts counter is only ever compared with PurgeCeiling, so the code
\* cannot tell values from MaxAttempts on apart: counting up to MaxAttempts
\* and staying there keeps a queue whose entry fails for ever finite
BumpCapped(email_data) ==
    [email_data EXCEPT !.attempts = Min(@ + 1, MaxAttempts)]

\* A for loop that gives up the rest of the batch when an entry fails
NextEntryUnlessFailed(i, size, success) == IF success THEN i + 1 ELSE size

\* handle, lines 72-93: the failure branches (83-86 and 89-92) end the turn
\* like the success branch, and the for loop goes on to the next entry.  i:
\* entries done so far, size: len(queue[:limit])
NextEntry(i, size, success) == i + 1

\* handle, lines 72-93: one turn of the for loop over queue[:limit].
\* attempted, sentIds, failedIds record what the transport did.  forever:
\* the transport may fail for an entry any number of times, the counter
\* being kept as BumpCapped does.  results: what the transport can do
DrainSendWith(forever, results) ==
    /\ strategy = "C"
    /\ drain.pc = "loop"
    /\ drain.i < Len(Batch(drain.queue, drain.limit))
    /\ LET email_data == Batch(drain.queue, drain.limit)[drain.i + 1]
           t == email_data.timestamp
       IN  \E result \in results :
             /\ forever \/ result = "sent"
                        \/ email_data.attempts < MaxAttempts
             /\ LET seen == [drain EXCEPT
                       !.i = NextEntry(@,
                                       Len(Batch(drain.queue, drain.limit)),
                                       _send_email(result)),
                       !.attempted = Append(@, t),
                       !.sentIds = IF result = "sent" THEN @ \cup {t} ELSE @,
                       !.failedIds = IF result = "sent" THEN @
                                     ELSE @ \cup {t}]
                IN  IF _send_email(result)
                    THEN drain' = [seen EXCEPT !.processed = @ + 1]
                    ELSE drain' = [seen EXCEPT
                             !.failed = @ + 1,
                             !.remaining_queue =
                                 Append(@, IF forever
                                           THEN BumpCapped(email_data)
                                           ELSE Bump(email_data))]
             /\ delivered' = IF result = "sent" THEN delivered \cup {t}
                             ELSE delivered
    /\ UNCHANGED <<strategy, enabled, writer, clock, email_queue_file, users,
                   outcomes, last>>
    /\ UNCHANGED asyncVars
    /\ UNCHANGED send_calls

DrainSend == DrainSendWith(FALSE, BatchResults)

\* A write-back that keeps the entries of the file it did not read
WriteBackKeepsNew(current, read, remaining_queue) ==
    LET Unread(email) == \A k \in DOMAIN read :
                            read[k].timestamp # email.timestamp
    IN  remaining_queue \o SelectSeq(current, Unread)

\* handle, lines 99-100: what json.dump is given.  current is what the file
\* holds now and read what handle loaded from it: the list written is made
\* of remaining_queue alone
WriteBack(current, read, remaining_queue) == remaining_queue

\* handle, lines 95-108: keep the untouched entries and write the file
\* back; ios are the faults of writing the file
DrainWriteWith(ios) ==
    /\ strategy = "C"
    /\ drain.pc = "loop"
    /\ drain.i = Len(Batch(drain.queue, drain.limit))
    /\ \E io \in ios :
         LET remaining_queue ==
                 drain.remaining_queue \o Unprocessed(drain.queue, drain.limit)
             dumped == json_dump(WriteBack(ReadQueue(email_queue_file),
                                           drain.queue, remaining_queue))
         IN  IF io = "open_w"
             THEN /\ email_queue_file' = email_queue_file
                  /\ drain' = HandleExcept(TRUE) @@
                              [drain EXCEPT !.pc = "done", !.queue = <<>>,
                                            !.remaining_queue = <<>>]
             ELSE IF io = "dump" \/ dumped.exc
             THEN /\ email_queue_file' = CorruptFile
                  /\ drain' = HandleExcept(TRUE) @@
                              [drain EXCEPT !.pc = "done", !.queue = <<>>,
                                            !.remaining_queue = <<>>]
             ELSE /\ email_queue_file' = OkFile(dumped.text)
                  /\ drain' = [drain EXCEPT !.pc = "done", !.wrote = TRUE,
                                  !.queue = <<>>, !.remaining_queue = <<>>]
    /\ delivered' = delivered \cap QueuedIds(email_queue_file')
    /\ UNCHANGED <<strategy, enabled, writer, clock, users, outcomes, last>>
    /\ UNCHANGED asyncVars
    /\ UNCHANGED send_calls

DrainWrite == DrainWriteWith({"none", "open_w", "dump"})

\* The command returns and its process ends
DrainReturn ==
    /\ strategy = "C"
    /\ drain.pc = "done"
    /\ drain' = Idle
    /\ UNCHANGED <<strategy, enabled, writer, clock, email_queue_file, users,
                   delivered, outcomes, last>>
    /\ UNCHANGED asyncVars
    /\ UNCHANGED send_calls

----------------------------------------------------------------------------
(* Strategy B: SimpleMailService *)

\* What one pass through "render the template, build the message, send()"
\* comes to.  sends: calls of the transport; sentOk: the transport accepted
\* the mail; raised: an exception left the pass; count: what send() returned.
Transport(result) ==
    [sends |-> IF result = "template_raises" THEN 0 ELSE 1,
     sentOk |-> result = "sent",
     raised |-> result \in {"send_raises", "template_raises"}]

\* The try block of _send_email_sync, lines 29-68
SendEmailSyncBody(result) ==
    LET t == Transport(result)
    IN  IF t.raised
        THEN t @@ [ret |-> "-", exc |-> TRUE, outcome |-> "none"]
        ELSE IF t.sentOk
        THEN t @@ [ret |-> "True", exc |-> FALSE, outcome |-> "sent"]
        ELSE t @@ [ret |-> "False", exc |-> FALSE, outcome |-> "failed"]

\* _send_email_sync without its "except Exception" clause
SendEmailSyncUncaught(result) == SendEmailSyncBody(result)

\* _send_email_sync: the except clause logs a failed outcome, returns False
_send_email_sync(result) ==
    LET b == SendEmailSyncBody(result)
    IN  IF b.exc
        THEN [b EXCEPT !.ret = "False", !.exc = FALSE, !.outcome = "failed"]
        ELSE b

\* SimpleMailService.send_welcome_email / send_farm_setup_reminder /
\* send_weather_alert
SimpleSend(en, result) ==
    IF ~en
    THEN [sends |-> 0, sentOk |-> FALSE, raised |-> FALSE, ret |-> "False",
          exc |-> FALSE, outcome |-> "none"]
    ELSE _send_email_sync(result)

\* The records _log_mail_activity adds for request t
Logged(t, outcome) == IF outcome = "none" THEN {} ELSE {<<t, outcome>>}

NotifyB ==
    /\ strategy = "B"
    /\ clock <= MaxReq
    /\ \E kind \in MailTypes, result \in SendResults :
         LET r == SimpleSend(enabled, result)
         IN  /\ last' = [NoOp EXCEPT !.op = "notify", !.id = clock,
                                     !.kind = kind, !.ret = r.ret,
                                     !.exc = r.exc, !.sends = r.sends,
                                     !.sentOk = r.sentOk,
                                     !.outcome = r.outcome,
                                     !.fault = r.raised]
             /\ outcomes' = outcomes \cup Logged(clock, r.outcome)
             /\ delivered' = IF r.sentOk THEN delivered \cup {clock}
                             ELSE delivered
             /\ send_calls' = [send_calls EXCEPT ![clock] = @ + r.sends]
    /\ clock' = clock + 1
    /\ UNCHANGED <<strategy, enabled, writer, email_queue_file, drain, users>>
    /\ UNCHANGED asyncVars

----------------------------------------------------------------------------
(* Strategy A: AsyncMailService.  start_background_processor and           *)
(* stop_background_processor are awaited on the application's event loop,  *)
(* which keeps running; the consumer task _process_mail_queue lives on it. *)
(* background_task is "none" (never created), "waiting" (in wait_for(get)),*)
(* "sending" (awaiting the executor's email.send) or "ended".              *)

\* A _send_mail_async without its except clause: what the render or the
\* send raises reaches the caller
SendMailAsyncUncaught(result) ==
    LET t == Transport(result)
    IN  t @@ [outcome |-> IF t.raised THEN "none" ELSE "sent",
              exc |-> t.raised]

\* _send_mail_async, lines 62-105: every exception is caught and logged as a
\* failed outcome; after a send that did not raise the outcome is "sent",
\* whatever count send() returned
_send_mail_async(result) ==
    LET t == Transport(result)
    IN  t @@ [outcome |-> IF t.raised THEN "failed" ELSE "sent",
              exc |-> FALSE]

\* The final fallback, lines 163-182: render and send directly, log an error
\* when that raises; nothing goes through _log_mail_activity
DirectSend(result) ==
    Transport(result) @@ [outcome |-> "none", exc |-> FALSE]

\* The try block of send_welcome_email / send_farm_setup_reminder /
\* send_weather_alert, lines 142-158.  inLoop: the caller runs on a thread
\* with a running event loop, so get_running_loop() succeeds and
\* asyncio.run() raises RuntimeError.
AsyncSendBody(running, inLoop, result) ==
    LET nothing == [sends |-> 0, sentOk |-> FALSE, raised |-> FALSE,
                    outcome |-> "none", exc |-> FALSE, queued |-> FALSE,
                    syncCalls |-> 0, directCalls |-> 0]
    IN  IF running /\ inLoop
        THEN [nothing EXCEPT !.queued = TRUE]
        ELSE IF inLoop
        THEN [nothing EXCEPT !.syncCalls = 1, !.exc = TRUE, !.raised = TRUE]
        ELSE LET r == _send_mail_async(result)
             IN  [nothing EXCEPT !.syncCalls = 1, !.sends = r.sends,
                                 !.sentOk = r.sentOk, !.outcome = r.outcome,
                                 !.exc = r.exc,
                                 !.raised = r.raised \/ running]

\* send_welcome_email / send_farm_setup_reminder / send_weather_alert of
\* AsyncMailService: no return statement gives a value, so every path
\* returns None
AsyncSend(running, inLoop, result) ==
    LET b == AsyncSendBody(running, inLoop, result)
        d == DirectSend(result)
    IN  IF b.exc
        THEN [b EXCEPT !.directCalls = 1, !.sends = b.sends + d.sends,
                       !.sentOk = b.sentOk \/ d.sentOk, !.exc = d.exc]
             @@ [ret |-> "None"]
        ELSE b @@ [ret |-> "None"]

NotifyAWith(kinds) ==
    /\ strategy = "A"
    /\ clock <= MaxReq
    /\ \E kind \in kinds, inLoop \in BOOLEAN, result \in SendResults :
         LET r == AsyncSend(is_running, inLoop, result)
         IN  /\ last' = [NoOp EXCEPT !.op = "notify", !.id = clock,
                                     !.kind = kind, !.ret = r.ret,
                                     !.exc = r.exc, !.sends = r.sends,
                                     !.sentOk = r.sentOk,
                                     !.outcome = r.outcome,
                                     !.fault = r.raised,
                                     !.running = is_running,
                                     !.queued = r.queued,
                                     !.syncCalls = r.syncCalls,
                                     !.directCalls = r.directCalls]
             /\ mail_queue' = IF r.queued
                              THEN Append(mail_queue,
                                          MailData(kind, "dict", clock))
                              ELSE mail_queue
             /\ outcomes' = outcomes \cup Logged(clock, r.outcome)
             /\ delivered' = IF r.sentOk THEN delivered \cup {clock}
                             ELSE delivered
             /\ send_calls' = [send_calls EXCEPT ![clock] = @ + r.sends]
    /\ clock' = clock + 1
    /\ UNCHANGED <<strategy, enabled, writer, email_queue_file, drain, users,
                   is_running, background_task, mail_task, inflight, started,
                   finished, interrupted, stranded, alive>>

NotifyA == NotifyAWith(MailTypes)

\* A consumer task that has been created and has not ended
Live(task) == task \in {"waiting", "sending"}

\* A start that creates a consumer task whatever is_running says
StartAlwaysSpawns(running, task) ==
    [is_running |-> TRUE, background_task |-> "waiting", spawned |-> 1]

\* start_background_processor, lines 29-34: spawned is the number of
\* create_task calls made
start_background_processor(running, task) ==
    IF ~running
    THEN [is_running |-> TRUE, background_task |-> "waiting", spawned |-> 1]
    ELSE [is_running |-> running, background_task |-> task, spawned |-> 0]

StartA ==
    /\ strategy = "A"
    /\ LET r == start_background_processor(is_running, background_task)
       IN  /\ is_running' = r.is_running
           /\ background_task' = r.background_task
           /\ alive' = alive + r.spawned
           /\ last' = [NoOp EXCEPT !.op = "start", !.running = is_running,
                                   !.spawned = r.spawned]
    /\ UNCHANGED <<strategy, enabled, writer, clock, email_queue_file, drain, users,
                   delivered, outcomes, mail_task, mail_queue, inflight,
                   started, finished, interrupted, stranded, send_calls>>

\* A stop that empties the in-memory queue
QueueClearedOnStop(queue) == <<>>

\* stop_background_processor, lines 36-45, never touches self.mail_queue
QueueAfterStop(queue) == queue

\* stop_background_processor, lines 36-45: cancel() raises CancelledError in
\* the task at the await it is suspended in; the executor thread of a send
\* in progress is not stopped
StopWith(record) ==
    /\ strategy = "A"
    /\ is_running' = FALSE
    /\ background_task' = IF background_task = "none" THEN "none" ELSE "ended"
    /\ mail_task' = 0
    /\ mail_queue' = QueueAfterStop(mail_queue)
    /\ interrupted' = IF background_task = "sending"
                      THEN interrupted \cup {mail_task} ELSE interrupted
    /\ stranded' = IF record
                   THEN stranded \cup {mail_queue[k].timestamp :
                                          k \in DOMAIN mail_queue}
                   ELSE stranded
    /\ alive' = IF Live(background_task) THEN alive - 1 ELSE alive
    /\ last' = [NoOp EXCEPT !.op = "stop", !.running = is_running]
    /\ UNCHANGED <<strategy, enabled, writer, clock, email_queue_file, drain, users,
                   delivered, outcomes, inflight, started,
                   finished, send_calls>>

StopA == StopWith(FALSE)

\* asyncio.LifoQueue.get(): the newest entry first
QueueGetNewest(queue) ==
    [item |-> queue[Len(queue)], rest |-> SubSeq(queue, 1, Len(queue) - 1)]

\* asyncio.Queue.get(): the oldest entry first
QueueGet(queue) == [item |-> Head(queue), rest |-> Tail(queue)]

\* A consumer loop that ends when an entry fails
ConsumerEndsOnError(raised) == IF raised THEN "ended" ELSE "waiting"

\* _process_mail_queue, lines 49-60: _send_mail_async has returned, with
\* the entry sent or its failure logged (raised), and the while loop goes
\* back to wait_for(self.mail_queue.get())
ConsumerAfter(raised) == "waiting"

\* _process_mail_queue, lines 49-53, and _send_mail_async up to the await of
\* the executor: take an entry, render it, hand email.send to a thread
ConsumerGet ==
    /\ strategy = "A"
    /\ background_task = "waiting"
    /\ is_running
    /\ mail_queue # <<>>
    /\ LET got == QueueGet(mail_queue)
           t == got.item.timestamp
       IN  /\ mail_queue' = got.rest
           /\ started' = started \cup {t}
           /\ \E render \in {"ok", "template_raises"} :
                IF render = "template_raises"
                THEN /\ outcomes' = outcomes \cup Logged(t, "failed")
                     /\ finished' = finished \cup {t}
                     /\ background_task' = ConsumerAfter(TRUE)
                     /\ UNCHANGED <<mail_task, inflight, send_calls>>
                ELSE /\ background_task' = "sending"
                     /\ mail_task' = t
                     /\ inflight' = inflight \cup {t}
                     /\ send_calls' = [send_calls EXCEPT ![t] = @ + 1]
                     /\ UNCHANGED <<outcomes, finished>>
    /\ last' = [NoOp EXCEPT !.op = "consume"]
    /\ UNCHANGED <<strategy, enabled, writer, clock, email_queue_file, drain, users,
                   delivered, is_running, interrupted, stranded, alive>>

\* _send_mail_async, lines 94-105, and _process_mail_queue, line 54: the
\* executor's send returns to the waiting task
ConsumerSendDone ==
    /\ strategy = "A"
    /\ background_task = "sending"
    /\ \E result \in {"sent", "zero", "send_raises"} :
         LET r == _send_mail_async(result)
         IN  /\ outcomes' = outcomes \cup Logged(mail_task, r.outcome)
             /\ delivered' = IF r.sentOk THEN delivered \cup {mail_task}
                             ELSE delivered
             /\ background_task' = ConsumerAfter(r.raised)
    /\ finished' = finished \cup {mail_task}
    /\ inflight' = inflight \ {mail_task}
    /\ mail_task' = 0
    /\ last' = [NoOp EXCEPT !.op = "consume"]
    /\ UNCHANGED <<strategy, enabled, writer, clock, email_queue_file, drain, users,
                   is_running, mail_queue, started, interrupted, stranded, alive,
                   send_calls>>

\* The send of a task that stop() cancelled ends in its executor thread;
\* no coroutine is left to log its outcome
OrphanSendDone ==
    /\ strategy = "A"
    /\ \E t \in inflight \ {mail_task} :
         \E result \in {"sent", "zero", "send_raises"} :
            /\ inflight' = inflight \ {t}
            /\ delivered' = IF result = "sent" THEN delivered \cup {t}
                            ELSE delivered
    /\ last' = [NoOp EXCEPT !.op = "orphan"]
    /\ UNCHANGED <<strategy, enabled, writer, clock, email_queue_file, drain, users,
                   outcomes, is_running, background_task, mail_task,
                   mail_queue, started, finished, interrupted, stranded, alive,
                   send_calls>>

\* start_mail_service, lines 308-333.  loopRunning: the caller runs on the
\* thread of a running event loop, and create_task() puts the start on that
\* loop.  Otherwise a daemon thread calls
\* asyncio.run(start_background_processor()): the start sets is_running and
\* creates the consumer task on the thread's new loop, the coroutine
\* returns at once, and asyncio.run() cancels every task that is left and
\* closes the loop before the thread ends
StartMailService ==
    /\ strategy = "A"
    /\ \E loopRunning \in BOOLEAN :
         LET r == start_background_processor(is_running, background_task)
         IN  /\ is_running' = r.is_running
             /\ background_task' = IF r.spawned = 1 /\ ~loopRunning
                                   THEN "ended" ELSE r.background_task
             /\ alive' = IF loopRunning THEN alive + r.spawned ELSE alive
             /\ last' = [NoOp EXCEPT !.op = "start_mail_service",
                                     !.running = is_running,
                                     !.spawned = r.spawned]
    /\ UNCHANGED <<strategy, enabled, writer, clock, email_queue_file, drain,
                   users, delivered, outcomes, mail_task, mail_queue,
                   inflight, started, finished, interrupted, stranded, send_calls>>

\* stop_mail_service, lines 336-346: stop_background_processor is handed to
\* the loop get_event_loop() returns with run_coroutine_threadsafe and the
\* function returns.  On a running loop the coroutine is executed; on a loop
\* that nobody runs (or when get_event_loop() raises, which the except
\* clause logs) it never is
StopMailService ==
    /\ strategy = "A"
    /\ \E loopRunning \in BOOLEAN :
         IF loopRunning
         THEN /\ is_running' = FALSE
              /\ background_task' = IF background_task = "none" THEN "none"
                                    ELSE "ended"
              /\ mail_task' = 0
              /\ interrupted' = IF background_task = "sending"
                                THEN interrupted \cup {mail_task}
                                ELSE interrupted
              /\ alive' = IF Live(background_task) THEN alive - 1 ELSE alive
              /\ stranded' = stranded
         ELSE UNCHANGED <<is_running, background_task, mail_task,
                          interrupted, stranded, alive>>
    /\ last' = [NoOp EXCEPT !.op = "stop_mail_service",
                            !.running = is_running]
    /\ UNCHANGED <<strategy, enabled, writer, clock, email_queue_file, drain,
                   users, delivered, outcomes, mail_queue, inflight, started,
                   finished, send_calls>>

----------------------------------------------------------------------------

Init ==
    /\ strategy \in Strategies
    /\ enabled \in BOOLEAN
    /\ clock = 1
    /\ email_queue_file = MissingFile
    /\ is_running = FALSE
    /\ background_task = "none"
    /\ mail_task = 0
    /\ mail_queue = <<>>
    /\ inflight = {}
    /\ drain = Idle
    /\ writer = NoWriter
    /\ users = {}
    /\ delivered = {}
    /\ outcomes = {}
    /\ started = {}
    /\ finished = {}
    /\ interrupted = {}
    /\ stranded = {}
    /\ alive = 0
    /\ send_calls = [t \in 1..MaxReq |-> 0]
    /\ last = NoOp

Next ==
    \/ NotifyA
    \/ StartA
    \/ StopA
    \/ ConsumerGet
    \/ ConsumerSendDone
    \/ OrphanSendDone
    \/ NotifyB
    \/ NotifyC
    \/ CreateUserAccount
    \/ DrainStart
    \/ DrainSend
    \/ DrainWrite
    \/ DrainReturn

Spec == Init /\ [][Next]_vars

\* A deployment on the asynchronous in-process queue
InitA == Init /\ strategy = "A"
NextA ==
    \/ NotifyA
    \/ StartA
    \/ StopA
    \/ ConsumerGet
    \/ ConsumerSendDone
    \/ OrphanSendDone
SpecA == InitA /\ [][NextA]_vars

\* The asynchronous service started and stopped through the module
\* functions start_mail_service and stop_mail_service
NextBoot ==
    \/ StartMailService
    \/ StopMailService
    \/ NotifyA
    \/ ConsumerGet
    \/ ConsumerSendDone
    \/ OrphanSendDone
SpecBoot == InitA /\ [][NextBoot]_vars

\* The asynchronous service, with the entries that each stop() leaves on
\* the queue recorded; every request is a welcome mail (the three send_*
\* methods differ in the mail they build only)
StopRecorded == StopWith(TRUE)
WelcomeNotify == NotifyAWith({"welcome"})
NextStop ==
    \/ WelcomeNotify
    \/ StartA
    \/ StopRecorded
    \/ ConsumerGet
    \/ ConsumerSendDone
    \/ OrphanSendDone
SpecStop == InitA /\ [][NextStop]_vars

\* The asynchronous service while nobody stops it: the event loop keeps
\* running the consumer task, and the executor thread of a send returns
NextRun ==
    \/ NotifyA
    \/ StartA
    \/ ConsumerGet
    \/ ConsumerSendDone
SpecRun ==
    /\ InitA
    /\ [][NextRun]_vars
    /\ WF_vars(ConsumerGet)
    /\ WF_vars(ConsumerSendDone)

\* A deployment on the file queue
InitC == Init /\ strategy = "C"
NextC ==
    \/ NotifyC
    \/ DrainStart \/ DrainSend \/ DrainWrite \/ DrainReturn
SpecC == InitC /\ [][NextC]_vars

\* The file queue with a batch command that is run again and again with
\* --limit 1 or more, in an environment whose file operations never fail
LiveNotify ==
    /\ drain.pc = "idle"
    /\ NotifyCWith({"dict"}, {"none"})
LiveDrainStart == DrainStartWith(1..MaxLimit, {"none"})
LiveDrainSend == DrainSendWith(TRUE, BatchResults)
LiveDrainWrite == DrainWriteWith({"none"})
NextLive ==
    \/ LiveNotify
    \/ LiveDrainStart
    \/ LiveDrainSend
    \/ LiveDrainWrite
    \/ DrainReturn
InitLive == InitC /\ enabled
SpecLive ==
    /\ InitLive
    /\ [][NextLive]_vars
    /\ WF_vars(LiveDrainStart)
    /\ WF_vars(LiveDrainSend)
    /\ WF_vars(LiveDrainWrite)
    /\ WF_vars(DrainReturn)

\* The file queue used by processes that nothing serializes: a notify may
\* run at any point of a batch command or of another notify.  File
\* operations do not fail here
RacingNotify == NotifyCWith({"dict"}, {"none"})
RacingDrainStart == DrainStartWith(0..MaxLimit, {"none"})
RacingDrainWrite == DrainWriteWith({"none"})
NextRace ==
    \/ RacingNotify
    \/ QueueRead
    \/ QueueWrite
    \/ RacingDrainStart
    \/ DrainSend
    \/ RacingDrainWrite
    \/ DrainReturn
SpecRace == InitLive /\ [][NextRace]_vars

\* The file queue with a file that can go missing or unparseable: the
\* batch command meets every file fault, notify and get_queue_size are
\* called between its runs, and notify itself meets no fault
NextFile ==
    \/ LiveNotify
    \/ GetQueueSize
    \/ DrainStart
    \/ DrainSend
    \/ DrainWrite
    \/ DrainReturn
SpecFile == InitLive /\ [][NextFile]_vars

\* The file queue in a deployment whose transport credentials are missing:
\* every email_msg.send() raises.  File operations do not fail here
NoCredentialsDrainSend == DrainSendWith(FALSE, {"raises"})
NextNoCredentials ==
    \/ LiveNotify
    \/ LiveDrainStart
    \/ NoCredentialsDrainSend
    \/ LiveDrainWrite
    \/ DrainReturn
SpecNoCredentials == InitLive /\ [][NextNoCredentials]_vars

\* The file queue as the registration view uses it
NextReg ==
    \/ CreateUserAccount
    \/ NotifyC
SpecReg == InitC /\ [][NextReg]_vars

\* The three mail services and their consumers
NextMail ==
    \/ NotifyA
    \/ StartA
    \/ StopA
    \/ ConsumerGet
    \/ ConsumerSendDone
    \/ OrphanSendDone
    \/ NotifyB
    \/ NotifyC
    \/ DrainStart
    \/ DrainSend
    \/ DrainWrite
    \/ DrainReturn
SpecMail == Init /\ [][NextMail]_vars

----------------------------------------------------------------------------
(* Reading the state for the properties below *)

\* What a reader of the queue file gets; a missing or unparseable file reads
\* as the empty queue
Parsed(file) == IF file.st = "ok" THEN json_load(file.text) ELSE <<>>

\* The attempts counter of request t in the file (-1: not in the file)
AttemptsOf(file, t) ==
    LET q == Parsed(file)
    IN  IF \E k \in DOMAIN q : q[k].timestamp = t
        THEN q[CHOOSE k \in DOMAIN q : q[k].timestamp = t].attempts
        ELSE -1

\* The number of entries of request t in the file
CopiesOf(file, t) ==
    Cardinality({k \in DOMAIN Parsed(file) : Parsed(file)[k].timestamp = t})

Exhausted(email) == email.attempts >= PurgeCeiling
NotExhausted(email) == email.attempts < PurgeCeiling

\* Steps of the batch command
DrainReads == drain.pc = "idle" /\ drain'.pc = "loop"
DrainAttempts == drain.pc = "loop" /\ drain'.pc = "loop"
DrainWrites == drain.pc = "loop" /\ drain'.pc = "done" /\ drain'.wrote

\* A notify call of the file queue
NotifiesC == strategy = "C" /\ last'.op = "notify" /\ clock' = clock + 1

----------------------------------------------------------------------------
(* Every strategy: the boundary of notify *)

\* Request t is kept somewhere for a later attempt
Persisted(t) ==
    \/ t \in QueuedIds(email_queue_file)
    \/ \E k \in DOMAIN mail_queue : mail_queue[k].timestamp = t

\* C1: in every strategy and for every kind of notification, a notify call
\* returns to its caller: no exception of templating, queueing or transport
\* leaves it.
C1_NotifyNeverRaises == last.op = "notify" => ~last.exc

C1_Witness ==
    /\ last.op = "notify" /\ strategy = "C"
    /\ last.fault /\ ~last.exc /\ last.ret = "False"

\* C2: when a notify call has returned, the request was delivered, or it is
\* kept in a queue for a later attempt, or an outcome with status failed was
\* logged for it.
C2_NeverSilentlyDropped ==
    last.op = "notify" =>
        \/ last.sentOk
        \/ Persisted(last.id)
        \/ <<last.id, "failed">> \in outcomes

\* C3: whenever create_user_account reaches the welcome notification, the
\* user exists afterwards and (user, None) is returned, whether the notify
\* returned True, returned False or raised.
C3_NotifyNeverAbortsRegistration ==
    (last.op = "create_user" /\ last.mail # "-") =>
        /\ last.ret = "user,None"
        /\ last.id \in users

C3_Witness ==
    /\ last.op = "create_user" /\ last.mail = "raises"
    /\ last.ret = "user,None" /\ last.id \in users
    /\ last.id \notin QueuedIds(email_queue_file)

----------------------------------------------------------------------------
(* Strategy C: the file queue and its batch command *)

\* C4: a drain without --clear-failed that writes the file back removes
\* exactly as many entries as it sent successfully, and that number is at
\* most min(limit, queue size); with 3 entries, limit 2 and two successful
\* sends exactly the third entry remains.
C4_DrainRemovesWhatItSent ==
    [][(DrainWrites /\ ~drain.clear_failed) =>
         LET before == Parsed(email_queue_file)
             after == Parsed(email_queue_file')
             ok == Cardinality(drain'.sentIds)
         IN  /\ Len(before) - Len(after) = ok
             /\ ok <= Min(drain.limit, Len(before))
             /\ (Len(before) = 3 /\ drain.limit = 2 /\ ok = 2)
                    => after = <<before[3]>>]_vars

C4_Witness ==
    /\ drain.pc = "done" /\ drain.wrote /\ ~drain.clear_failed
    /\ drain.limit = 2
    /\ drain.attempted = <<1, 2>> /\ drain.sentIds = {1, 2}
    /\ Parsed(email_queue_file) =
           <<[timestamp |-> 3, context |-> "dict", attempts |-> 0]>>

\* C5: every entry a drain attempted and failed to send (the transport
\* returned 0 or raised) is in the file the drain writes back, once, with
\* its attempts counter one higher than before the drain.
C5_FailedEntryKeptWithOneMoreAttempt ==
    [][DrainWrites =>
         \A t \in drain'.failedIds :
            /\ CopiesOf(email_queue_file', t) = 1
            /\ AttemptsOf(email_queue_file', t)
                   = AttemptsOf(email_queue_file, t) + 1]_vars

C5_Witness ==
    /\ drain.pc = "done" /\ drain.wrote
    /\ drain.limit = MaxLimit
    /\ drain.attempted = <<1>> /\ drain.failedIds = {1}
    /\ Parsed(email_queue_file) =
           <<[timestamp |-> 1, context |-> "dict", attempts |-> 1]>>

\* C6: with --clear-failed the drain drops every entry with 3 or more
\* attempts, wherever it is in the queue, before it picks its batch, never
\* attempts one of them, and none of them is in the file it writes back;
\* without --clear-failed the batch is picked from the whole queue and such
\* an entry leaves the file only by being sent.
C6_PurgeOnlyOnRequest ==
    [][/\ DrainReads =>
            drain'.queue = IF drain'.clear_failed
                           THEN SelectSeq(Parsed(email_queue_file),
                                          NotExhausted)
                           ELSE Parsed(email_queue_file)
       /\ (DrainAttempts /\ drain.clear_failed) =>
            \A k \in DOMAIN drain'.attempted :
               AttemptsOf(email_queue_file, drain'.attempted[k])
                   < PurgeCeiling
       /\ DrainWrites =>
            \A k \in DOMAIN Parsed(email_queue_file) :
               LET email == Parsed(email_queue_file)[k]
               IN  Exhausted(email) =>
                     IF drain.clear_failed
                     THEN email.timestamp \notin QueuedIds(email_queue_file')
                     ELSE \/ email.timestamp \in QueuedIds(email_queue_file')
                          \/ email.timestamp \in drain'.sentIds]_vars

C6_Witness ==
    /\ drain.pc = "done" /\ drain.wrote /\ drain.clear_failed
    /\ drain.purged # {}
    /\ \A k \in DOMAIN drain.attempted : drain.attempted[k] \notin drain.purged
    /\ drain.purged \cap QueuedIds(email_queue_file) = {}

\* C7: the queue file starts out reading as empty, and every notify that
\* returns True leaves a file that reads as what it read before plus, at the
\* tail, the new entry with the context it was given and attempts = 0; so K
\* accepted calls with no drain in between read back as K entries in call
\* order.
C7_NotifyAppendsAtTail ==
    /\ Parsed(email_queue_file) = <<>>
    /\ [][(NotifiesC /\ last'.ret = "True") =>
            Parsed(email_queue_file') =
                Append(Parsed(email_queue_file),
                       [timestamp |-> clock, context |-> "dict",
                        attempts |-> 0])]_vars

C7_Witness ==
    /\ last.op = "notify" /\ last.ret = "True" /\ strategy = "C"
    /\ Parsed(email_queue_file) =
           [k \in 1..MaxReq |->
               [timestamp |-> k, context |-> "dict", attempts |-> 0]]

\* C8: a notify of the file queue returns True exactly when the file now
\* ends with the new entry, attempts = 0, and False otherwise, in particular
\* when the service is disabled; it never calls the transport.
C8_TrueIffQueuedAndNoSend ==
    [][NotifiesC =>
         LET q == Parsed(email_queue_file')
             written == /\ email_queue_file'.st = "ok"
                        /\ q # <<>>
                        /\ q[Len(q)].timestamp = clock
                        /\ q[Len(q)].attempts = 0
         IN  /\ last'.ret \in {"True", "False"}
             /\ last'.ret = "True" <=> written
             /\ clock \in QueuedIds(email_queue_file') => written
             /\ ~enabled => last'.ret = "False"
             /\ last'.sends = 0
             /\ delivered' = delivered]_vars

C8_Witness ==
    /\ strategy = "C" /\ enabled
    /\ last.op = "notify" /\ last.ret = "False"
    /\ last.id \notin QueuedIds(email_queue_file)

----------------------------------------------------------------------------
(* Strategy A: the in-process queue and its consumer *)

\* C9: the consumer takes the entries of the in-memory queue in the order
\* they were put there and one at a time: when its attempt for e2 has
\* started, no entry queued before e2 is still waiting, and the attempt for
\* every earlier entry has finished, unless stop() cancelled the consumer in
\* the middle of it.
C9_ConsumerIsFifo ==
    \A e2 \in started :
        /\ \A k \in DOMAIN mail_queue : mail_queue[k].timestamp > e2
        /\ \A e1 \in started :
              e1 < e2 => e1 \in finished \cup interrupted

C9_Witness ==
    /\ Cardinality(finished) >= 2
    /\ interrupted = {}
    /\ background_task = "sending"
    /\ \A e1 \in finished : e1 < mail_task

\* C10: a notify of the asynchronous service that finds it not running goes
\* through the synchronous path exactly once and returns a status that says
\* whether that send delivered.
C10_SyncOnceAndStatusFromSend ==
    (strategy = "A" /\ last.op = "notify" /\ ~last.running) =>
        /\ last.syncCalls = 1
        /\ last.ret = "True" <=> last.sentOk
        /\ last.ret = "False" <=> ~last.sentOk

\* C11: a notify of the asynchronous service that finds it running puts the
\* request on the in-memory queue and makes no delivery attempt in the
\* caller's context.
C11_RunningNotifyOnlyQueues ==
    (strategy = "A" /\ last.op = "notify" /\ last.running) =>
        /\ last.queued
        /\ \E k \in DOMAIN mail_queue : mail_queue[k].timestamp = last.id
        /\ last.sends = 0
        /\ last.syncCalls = 0 /\ last.directCalls = 0

----------------------------------------------------------------------------
(* Strategy B: the inline send *)

\* The outcomes logged for request t
OutcomesOf(t) == {o \in outcomes : o[1] = t}

\* What an enabled inline notify returns and records
InlineStatus ==
    /\ last.ret \in {"True", "False"}
    /\ last.ret = "True" <=> last.sentOk
    /\ last.fault => last.ret = "False"
    /\ OutcomesOf(last.id) =
           {<<last.id, IF last.ret = "True" THEN "sent" ELSE "failed">>}

\* C12 as stated: an enabled notify of the inline service makes exactly one
\* transport send, returns True exactly when the transport delivered, False
\* on a zero count or any exception, and records exactly one outcome.
C12_ExactlyOneSend ==
    (strategy = "B" /\ enabled /\ last.op = "notify") =>
        /\ send_calls[last.id] = 1
        /\ InlineStatus

\* C12, amended: an enabled notify of the inline service makes at most one
\* transport send, and exactly one unless rendering the template raised
\* before the send; it returns True exactly when the transport delivered,
\* False on a zero count or any exception, and records exactly one outcome,
\* sent or failed accordingly.
C12_OneSendUnlessTemplateFails ==
    (strategy = "B" /\ enabled /\ last.op = "notify") =>
        /\ send_calls[last.id] <= 1
        /\ send_calls[last.id] = 0 <=> (last.fault /\ last.sends = 0)
        /\ send_calls[last.id] = last.sends
        /\ InlineStatus

C12_Witness ==
    /\ strategy = "B" /\ enabled /\ last.op = "notify"
    /\ send_calls[last.id] = 0 /\ last.fault
    /\ last.ret = "False"
    /\ OutcomesOf(last.id) = {<<last.id, "failed">>}

----------------------------------------------------------------------------
(* Strategy C: progress of the batch command *)

\* Request t has been sent and removed, or an attempt on it is recorded
Handled(t) ==
    \/ t \notin QueuedIds(email_queue_file)
    \/ AttemptsOf(email_queue_file, t) >= 1

\* C13: when the batch command is run again and again with --limit 1 or
\* more, every entry in the queue file is eventually sent and removed or has
\* an attempt recorded in its attempts counter.
C13_EveryEntryEventuallyAttempted ==
    \A t \in 1..MaxReq :
        [](t \in QueuedIds(email_queue_file) => <>Handled(t))

\* C14: over notify and drain calls made one after the other, the attempts
\* counter of an entry that stays in the queue file never decreases; it
\* changes only when a drain writes the file back after a failed attempt on
\* that entry, and then by exactly 1; an entry that appears in the file is
\* appended by a notify with attempts = 0.
C14_AttemptsOnlyGrowByOne ==
    [][/\ \A t \in QueuedIds(email_queue_file)
                     \cap QueuedIds(email_queue_file') :
            LET old == AttemptsOf(email_queue_file, t)
                new == AttemptsOf(email_queue_file', t)
            IN  /\ new >= old
                /\ new # old =>
                     /\ new = old + 1
                     /\ DrainWrites
                     /\ t \in drain'.failedIds
       /\ \A t \in QueuedIds(email_queue_file')
                     \ QueuedIds(email_queue_file) :
            /\ AttemptsOf(email_queue_file', t) = 0
            /\ NotifiesC /\ t = clock]_vars

C14_Witness ==
    /\ drain.pc = "done" /\ drain.wrote
    /\ \E t \in drain.failedIds : AttemptsOf(email_queue_file, t) = 2
    /\ \E t \in QueuedIds(email_queue_file) \ drain.failedIds :
          AttemptsOf(email_queue_file, t) = 0

----------------------------------------------------------------------------
(* Strategy A: the life cycle of the service *)

StartStep == strategy = "A" /\ last'.op = "start"
StopStep == strategy = "A" /\ last'.op = "stop"

\* C15: the asynchronous service starts out stopped with no consumer loop;
\* start() when stopped makes it running and creates exactly one consumer
\* loop, start() when running creates none; stop() makes it stopped; at
\* most one consumer loop is ever alive.
C15_StartStopStateMachine ==
    /\ ~is_running /\ alive = 0
    /\ [][/\ StartStep =>
               /\ is_running'
               /\ last'.spawned = (IF is_running THEN 0 ELSE 1)
               /\ alive' = alive + last'.spawned
          /\ StopStep => ~is_running' /\ alive' = 0
          /\ alive' <= 1
          /\ alive' = (IF Live(background_task') THEN 1 ELSE 0)]_vars

C15_Witness ==
    /\ strategy = "A"
    /\ last.op = "start" /\ last.running /\ last.spawned = 0
    /\ is_running /\ alive = 1
    /\ interrupted # {}

----------------------------------------------------------------------------
(* Strategy C: processes that are not serialized *)

\* The requests in a list of entries
IdsOf(queue) == {queue[k].timestamp : k \in DOMAIN queue}

\* The second process rewrites the file
WriterWrites == writer.pc = "read" /\ writer'.pc = "idle"

\* C16: an entry that a notify appended between the read and the write-back
\* of a batch command, or between the read and the write of another notify,
\* is not in the file after that write; the batch command that overwrites
\* it has made no attempt to send it.
C16_InterleavedWriteLosesEntry ==
    [][/\ DrainWrites =>
            \A t \in QueuedIds(email_queue_file)
                        \ (IdsOf(drain.queue) \cup drain.purged) :
               /\ t \notin QueuedIds(email_queue_file')
               /\ \A k \in DOMAIN drain'.attempted : drain'.attempted[k] # t
       /\ WriterWrites =>
            \A t \in QueuedIds(email_queue_file) \ IdsOf(writer.queue) :
               t \notin QueuedIds(email_queue_file')]_vars

\* A notify returned True while a batch command was between its read and
\* its write-back; after the write-back the entry is gone and was not sent
C16_Witness ==
    /\ drain.pc = "done" /\ drain.wrote
    /\ last.op = "notify" /\ last.ret = "True"
    /\ last.id \notin QueuedIds(email_queue_file)
    /\ \A k \in DOMAIN drain.attempted : drain.attempted[k] # last.id
    /\ last.id \notin delivered

----------------------------------------------------------------------------
(* Strategy C: failures of the file *)

\* C17: when a notify of an enabled file queue returns False because
\* queueing failed, the file reads afterwards as it read before the call:
\* the same entries in the same order.
C17_FailedNotifyKeepsFile ==
    [][(NotifiesC /\ enabled /\ last'.ret = "False") =>
         Parsed(email_queue_file') = Parsed(email_queue_file)]_vars

\* C18: a batch command never attempts an entry that an earlier batch
\* command has sent successfully.
C18_NoSecondSendAfterSuccess ==
    [][DrainAttempts =>
         drain'.attempted[Len(drain'.attempted)] \notin delivered]_vars

----------------------------------------------------------------------------
(* Strategy A: the module functions *)

\* C19: once the service was started with start_mail_service, whenever
\* is_running is true a consumer task is alive to take entries from the
\* queue, and right after stop_mail_service is_running is false.
C19_RunningMeansLiveConsumer ==
    /\ is_running => Live(background_task)
    /\ last.op = "stop_mail_service" => ~is_running

----------------------------------------------------------------------------
(* Strategies A and B: no retry *)

\* The entries of the in-memory queue that carry request t
QueuedCopies(t) ==
    Cardinality({k \in DOMAIN mail_queue : mail_queue[k].timestamp = t})

\* C20: under the asynchronous and the inline service a request is handed to
\* the transport at most once, whichever path takes it (consumer task,
\* synchronous send, direct send), it is queued at most once, and a request
\* that was taken or sent is not on the queue again.
C20_AtMostOneSendPerRequest ==
    strategy \in {"A", "B"} =>
        \A t \in 1..MaxReq :
            /\ send_calls[t] <= 1
            /\ QueuedCopies(t) <= 1
            /\ (send_calls[t] = 1 \/ t \in started) => QueuedCopies(t) = 0

\* A request of the asynchronous service whose only send failed in the
\* consumer task, while a later request has already been made
C20_Witness ==
    /\ strategy = "A"
    /\ \E t \in 1..MaxReq :
         /\ t \in finished
         /\ send_calls[t] = 1
         /\ <<t, "failed">> \in outcomes
         /\ t \notin delivered
         /\ QueuedCopies(t) = 0
         /\ clock > t + 1

----------------------------------------------------------------------------
(* Strategy A: the fallback chain *)

\* C21: a notify of the asynchronous service that does not queue makes the
\* synchronous send in the caller's context; when that send failed on the
\* template or the transport (which _send_mail_async logs as a failed
\* outcome) the direct send is made, and the direct send is made only after
\* a synchronous attempt that failed.
C21_DirectSendIffSyncSendFailed ==
    (strategy = "A" /\ last.op = "notify" /\ ~last.queued) =>
        /\ last.syncCalls = 1
        /\ last.outcome = "failed" => last.directCalls = 1
        /\ last.directCalls = 1 => last.fault

----------------------------------------------------------------------------
(* Strategy A: what a stop does to the queue *)

C23_InterruptedSendIsRecorded ==
    strategy = "A" =>
        \A t \in interrupted :
            t \notin inflight => Cardinality(OutcomesOf(t)) = 1

----------------------------------------------------------------------------
(* Strategy A: the consumer loop while the service stays running *)

\* C24: while the service is not stopped, a template or transport failure
\* on one entry does not end the consumer loop; every entry on the queue is
\* eventually taken, is attempted once (at most one transport send, none
\* when the template fails), and has exactly one outcome, sent or failed,
\* recorded once its attempt has ended.
C24_EveryQueuedEntryHandledOnce ==
    /\ [](is_running => Live(background_task))
    /\ [](\A t \in finished :
             /\ Cardinality(OutcomesOf(t)) = 1
             /\ send_calls[t] <= 1
             /\ QueuedCopies(t) = 0)
    /\ \A t \in 1..MaxReq :
         [](QueuedCopies(t) = 1 =>
              <>(t \in finished /\ Cardinality(OutcomesOf(t)) = 1))

\* The consumer has recorded a failure for one entry and afterwards sent a
\* later one
C24_Witness ==
    /\ strategy = "A" /\ is_running /\ background_task = "waiting"
    /\ \E t1, t2 \in finished :
         /\ t1 < t2
         /\ OutcomesOf(t1) = {<<t1, "failed">>}
         /\ OutcomesOf(t2) = {<<t2, "sent">>}
         /\ t2 \in delivered

----------------------------------------------------------------------------
(* Strategy C: what one run of the batch command does to the queue *)

\* What is left of the file's queue once --clear-failed, if given, has
\* dropped the exhausted entries
AfterPurge(file, clear_failed) ==
    IF clear_failed THEN SelectSeq(Parsed(file), NotExhausted)
    ELSE Parsed(file)

\* The last n elements of s
Suffix(s, n) == SubSeq(s, Len(s) - n + 1, Len(s))

\* C25: a drain with limit N writes back, at the tail of the file and
\* unchanged in every field, attempts included, all the entries that lie
\* beyond the first N positions of the queue as it is after the optional
\* purge.
C25_EntriesBeyondLimitUntouched ==
    [][DrainWrites =>
         LET beyond == PySliceFrom(AfterPurge(email_queue_file,
                                              drain.clear_failed),
                                   drain.limit)
             after == Parsed(email_queue_file')
         IN  /\ Len(after) >= Len(beyond)
             /\ Suffix(after, Len(beyond)) = beyond
             /\ \A k \in DOMAIN beyond :
                  \A j \in DOMAIN drain'.attempted :
                     drain'.attempted[j] # beyond[k].timestamp]_vars

\* A drain with limit 1 has written back a second entry that it did not
\* attempt and that carries the attempts of an earlier drain
C25_Witness ==
    /\ drain.pc = "done" /\ drain.wrote /\ drain.limit = 1
    /\ Len(drain.attempted) = 1
    /\ LET q == Parsed(email_queue_file)
       IN  /\ Len(q) >= 2
           /\ q[Len(q)].attempts >= 1
           /\ \A k \in DOMAIN drain.attempted :
                drain.attempted[k] # q[Len(q)].timestamp

\* The requests of a list of entries, in the order of the list
TimestampsOf(queue) == [k \in DOMAIN queue |-> queue[k].timestamp]

\* C26: a drain attempts the entries in queue order from the front: its
\* k-th attempt is on the k-th entry of the queue after the optional purge.
\* The entries that survive the drain are written back in the order they
\* had, the failed ones of the batch ahead of the untouched ones, so that
\* the next drain starts with the oldest survivors.
C26_DrainKeepsQueueOrder ==
    [][/\ DrainAttempts =>
            LET k == Len(drain'.attempted)
            IN  /\ k = Len(drain.attempted) + 1
                /\ drain'.attempted[k] = drain.queue[k].timestamp
       /\ DrainWrites =>
            LET kept == AfterPurge(email_queue_file, drain.clear_failed)
                Survives(email) == email.timestamp \notin drain'.sentIds
                after == Parsed(email_queue_file')
                nfailed == Cardinality(drain'.failedIds)
            IN  /\ TimestampsOf(after)
                       = TimestampsOf(SelectSeq(kept, Survives))
                /\ \A k \in DOMAIN after :
                     after[k].timestamp \in drain'.failedIds <=> k <= nfailed
       ]_vars

\* A drain with limit 2 has failed on the first two of three entries and
\* written all three back in their order
C26_Witness ==
    /\ drain.pc = "done" /\ drain.wrote /\ drain.limit = 2
    /\ drain.attempted = <<1, 2>> /\ drain.failedIds = {1, 2}
    /\ TimestampsOf(Parsed(email_queue_file)) = <<1, 2, 3>>

\* C27: a send that fails or raises on one entry does not end the batch:
\* when the loop of a drain with limit N is over, each of the first
\* min(N, queue size) entries has been attempted exactly once, in a run
\* that had failures too, and unless writing the file itself fails the
\* file is written back.
C27_FailureDoesNotAbortBatch ==
    [][(drain.pc = "loop" /\ drain'.pc = "done") =>
         LET batch == PySliceTo(drain.queue, drain.limit)
         IN  /\ Len(batch) = Min(drain.limit, Len(drain.queue))
             /\ drain'.attempted = TimestampsOf(batch)
             /\ drain'.sentIds \cup drain'.failedIds = IdsOf(batch)
             /\ drain'.sentIds \cap drain'.failedIds = {}
             /\ drain'.processed + drain'.failed = Len(batch)
             /\ ~drain'.error =>
                  /\ drain'.wrote
                  /\ email_queue_file'.st = "ok"]_vars

\* A drain whose first entry failed has gone on to send the second and has
\* written the file
C27_Witness ==
    /\ drain.pc = "done" /\ drain.wrote
    /\ drain.attempted = <<1, 2>>
    /\ drain.failedIds = {1} /\ drain.sentIds = {2}
    /\ TimestampsOf(Parsed(email_queue_file)) = <<1>>

----------------------------------------------------------------------------
(* Strategy C: a queue file that is missing or does not parse *)

Unreadable(file) == file.st \in {"missing", "corrupt"}

\* A get_queue_size call: it changes nothing but reports in last
SizeStep ==
    /\ last'.op = "size"
    /\ UNCHANGED <<email_queue_file, drain, clock>>

\* C28: a missing or unparseable queue file is an empty queue and never a
\* fatal error: a notify succeeds and leaves a file that holds exactly the
\* new entry, get_queue_size returns 0, and the batch command makes no
\* delivery attempt and returns without raising.
C28_UnreadableFileIsEmptyQueue ==
    [][Unreadable(email_queue_file) =>
         /\ NotifiesC =>
              /\ last'.ret = "True" /\ ~last'.exc
              /\ email_queue_file'.st = "ok"
              /\ Parsed(email_queue_file') =
                     <<[timestamp |-> clock, context |-> "dict",
                        attempts |-> 0]>>
         /\ SizeStep => last'.size = 0 /\ ~last'.exc
         /\ (drain.pc = "idle" /\ drain'.pc # "idle") =>
              /\ drain'.pc = "done"
              /\ drain'.attempted = <<>>
              /\ ~drain'.raised
              /\ delivered' = delivered
              /\ email_queue_file' = email_queue_file]_vars

\* The file did not parse and a notify has made it a one-entry queue, while
\* earlier requests had been accepted
C28_Witness ==
    /\ strategy = "C"
    /\ last.op = "notify" /\ last.ret = "True" /\ last.id >= 3
    /\ Len(Parsed(email_queue_file)) = 1
    /\ Parsed(email_queue_file)[1].timestamp = last.id
    /\ delivered = {}

\* C29: when the batch command cannot write the queue file back, the
\* failure is raised to the caller of the command, so that the run does
\* not end as a normal one.
C29_WriteFailureRaised ==
    [][(drain.pc = "loop" /\ drain'.pc = "done" /\ drain'.error) =>
         drain'.raised]_vars

----------------------------------------------------------------------------
(* Configuration errors of the transport *)

\* C30: an attempt that fails because the transport has no credentials is
\* raised to the caller at once, and the request is not attempted again,
\* not even by a later run of the batch command: an entry that is attempted
\* has never failed before.
C30_CredentialFailureRaisedNotRetried ==
    [][DrainAttempts =>
         LET t == drain'.attempted[Len(drain'.attempted)]
         IN  /\ AttemptsOf(email_queue_file, t) = 0
             /\ t \in drain'.failedIds => drain'.raised]_vars

====
